---- MODULE Spec2Model ----
(***************************************************************************)
(* Session-and-media lifecycle of the emotion tracking backend:            *)
(* routes/sessions.py, routes/health.py, models/session.py, config.py.     *)
(*                                                                         *)
(* The two stores (the sessions collection and GridFS) are the shared      *)
(* state.  Every handler is a sequence of store calls; requests are served *)
(* concurrently (several workers over one database) and nothing locks, so  *)
(* handlers interleave at the granularity of one store call.  A handler    *)
(* that makes one store call is one action; upload_video, download_video   *)
(* and delete_session make several and run in a request slot of procs.     *)
(*                                                                         *)
(* Identifiers: an ObjectId and its 24-hex string are both the positive    *)
(* integer drawn from nextOid; a string that is no ObjectId is Malformed.  *)
(* Optional values are sequences of length at most one (<<>> is None).     *)
(* Session handlers are served with the store reachable; an outage is      *)
(* modelled where a handler has its own path for it (the ping of           *)
(* health_check, the swallowed fs.delete of delete_session).               *)
(* latitude/longitude are carried through unread, as in the source.        *)
(* Instants are integers (the clock counts days); an instant written with  *)
(* isoformat() is stored as a string, which the record says.               *)
(***************************************************************************)
EXTENDS Integers, Sequences, FiniteSets, TLC

VARIABLES client, db, fs, sessions, blobs, nextOid, clock, procs, last

vars == <<client, db, fs, sessions, blobs, nextOid, clock, procs, last>>

(* ---------------------------- bounds ----------------------------------- *)
MaxOid == 3
NumProcs == 2
\* the last day the clock reaches by the passing of time alone
MaxClock == 4

(* ------------------------- program constants --------------------------- *)
\* settings.MAX_VIDEO_SIZE is read from the environment; here it is 2 bytes
MAX_VIDEO_SIZE == 2
ALLOWED_VIDEO_TYPES == {"video/mp4", "video/quicktime", "video/x-msvideo"}
SCORE_GE == 1
SCORE_LE == 5
LIMIT_DEFAULT == 100
LIMIT_GE == 1
LIMIT_LE == 1000
SKIP_DEFAULT == 0
SKIP_GE == 0
\* settings.DATA_RETENTION_DAYS is read from the environment; here it is 2 days
DATA_RETENTION_DAYS == 2
\* 24 * 60 * 60 seconds: one unit of the clock
DAY == 1

(* ------------------------------ values --------------------------------- *)
None == <<>>
Some(x) == <<x>>
Malformed == -1
Procs == 1..NumProcs
Oids == 1..MaxOid
SessionIdInputs == Oids \cup {Malformed}

\* ObjectId(s): raises InvalidId unless s is a 24-hex string
ObjectIdValid(s) == s >= 1

\* request bodies offered to POST /api/sessions
Bodies ==
  { [device_id |-> "d1", emotion_score |-> 1, latitude |-> Some(25), longitude |-> Some(121), timestamp |-> 1],
    [device_id |-> "d1", emotion_score |-> 5, latitude |-> None, longitude |-> None, timestamp |-> 2],
    [device_id |-> "", emotion_score |-> 3, latitude |-> Some(25), longitude |-> None, timestamp |-> 2],
    [device_id |-> "d1", emotion_score |-> 0, latitude |-> None, longitude |-> None, timestamp |-> 1],
    [device_id |-> "", emotion_score |-> 6, latitude |-> None, longitude |-> None, timestamp |-> 1] }

\* multipart uploads offered to POST /api/sessions/{id}/video
Uploads ==
  { [content |-> <<7>>, filename |-> "a.mp4", content_type |-> "video/mp4"],
    [content |-> <<7, 8>>, filename |-> "b.mov", content_type |-> "video/quicktime"],
    [content |-> <<7, 8, 9>>, filename |-> "c.avi", content_type |-> "video/x-msvideo"],
    [content |-> <<7>>, filename |-> "d.png", content_type |-> "image/png"] }

NoUpload == [content |-> <<>>, filename |-> "", content_type |-> ""]

Idle == [pc |-> "idle", session_id |-> 0, video |-> NoUpload, video_id |-> None, warned |-> FALSE]

NoResponse == [op |-> "none", status |-> 0]

(* --------------------------- store helpers ----------------------------- *)
\* collection.find_one({"_id": oid}): the document, or None
find_one(oid) == IF oid \in DOMAIN sessions THEN Some(sessions[oid]) ELSE None

\* a stored document with its _id, as the handlers see and return it
Doc(oid) == [id |-> oid] @@ sessions[oid]

Remove(f, k) == [x \in (DOMAIN f) \ {k} |-> f[x]]

\* mutant: the upper bound of the score is not checked
SessionCreateValid_ge_only(body) == body.emotion_score >= SCORE_GE

\* SessionCreate: emotion_score: int = Field(..., ge=1, le=5)
SessionCreateValid(body) ==
  body.emotion_score >= SCORE_GE /\ body.emotion_score <= SCORE_LE

(* ------------------------------ startup -------------------------------- *)
Init ==
  /\ client = "None"
  /\ db = "None"
  /\ fs = "None"
  /\ sessions = << >>
  /\ blobs = << >>
  /\ nextOid = 1
  /\ clock = 0
  /\ procs = [p \in Procs |-> Idle]
  /\ last = NoResponse

\* MongoDBClient.connect, called once by lifespan: the ping either succeeds
\* (db and fs are set) or raises ConnectionFailure (they stay None)
connect ==
  /\ client = "None"
  /\ client' = "MongoClient"
  /\ \/ db' = "Database" /\ fs' = "GridFS"
     \/ UNCHANGED <<db, fs>>
  /\ UNCHANGED <<sessions, blobs, nextOid, clock, procs, last>>

Serving == db = "Database"

\* a request is served in the first free request slot
FreeSlot(p) ==
  /\ procs[p].pc = "idle"
  /\ \A q \in Procs : q < p => procs[q].pc # "idle"

AllIdle == \A p \in Procs : procs[p].pc = "idle"

\* datetime.utcnow(): every call a handler makes reads the clock, and the
\* clock has moved on by the next call
utcnow_after(called) == IF called THEN clock + 1 ELSE clock

\* datetime.isoformat(): the instant as text; the store keeps it as a BSON
\* string, not as a BSON date
isoformat(t) == [bson |-> "string", at |-> t]

(* --------------------------- create_session ---------------------------- *)
create_session(body) ==
  /\ Serving
  /\ IF ~SessionCreateValid(body)
       THEN /\ last' = [op |-> "create_session", status |-> 422]
            /\ UNCHANGED <<sessions, nextOid>>
       ELSE /\ nextOid <= MaxOid
            /\ LET doc == [device_id |-> body.device_id,
                           emotion_score |-> body.emotion_score,
                           latitude |-> body.latitude,
                           longitude |-> body.longitude,
                           timestamp |-> body.timestamp,
                           video_id |-> None,
                           created_at |-> isoformat(clock),
                           updated_at |-> isoformat(clock)]
               IN /\ sessions' = (nextOid :> doc) @@ sessions
                  /\ last' = [op |-> "create_session", status |-> 201,
                              body |-> [id |-> nextOid] @@ doc]
            /\ nextOid' = nextOid + 1
  /\ clock' = utcnow_after(SessionCreateValid(body))
  /\ UNCHANGED <<client, db, fs, blobs, procs>>

(* ---------------------------- upload_video ---------------------------- *)
\* lines 70-76: what the try block raises ("" when it raises nothing)
upload_video_raised(session_id) ==
  IF ~ObjectIdValid(session_id) THEN "InvalidId"
  ELSE IF find_one(session_id) = None THEN "HTTPException(404)"
  ELSE ""

\* lines 75-76: `except Exception` catches InvalidId and the HTTPException
\* raised at line 74 alike, and raises HTTPException(400) for both
upload_video_lookup_status(session_id) ==
  IF upload_video_raised(session_id) # "" THEN 400 ELSE 200

\* request arrival and the existence check (find_one)
upload_video_find(p, session_id, video) ==
  /\ Serving
  /\ FreeSlot(p)
  /\ IF upload_video_lookup_status(session_id) # 200
       THEN /\ last' = [op |-> "upload_video", status |-> upload_video_lookup_status(session_id),
                        detail |-> "Invalid session ID", session_id |-> session_id]
            /\ UNCHANGED procs
       ELSE /\ procs' = [procs EXCEPT ![p] = [Idle EXCEPT !.pc = "u_put",
                                                           !.session_id = session_id,
                                                           !.video = video]]
            /\ UNCHANGED last
  /\ UNCHANGED <<client, db, fs, sessions, blobs, nextOid, clock>>

\* line 79
ContentTypeAllowed(video) == video.content_type \in ALLOWED_VIDEO_TYPES

\* mutant: the size check is missing
SizeAllowed_unchecked(video) == TRUE

\* line 90
SizeAllowed(video) == ~(Len(video.content) > MAX_VIDEO_SIZE)

\* lines 78-94: "" when the upload passes validation, else the 400's detail
upload_video_rejection(video) ==
  IF ~ContentTypeAllowed(video) THEN "Invalid file type"
  ELSE IF ~SizeAllowed(video) THEN "File too large"
  ELSE ""

\* lines 78-104: validation, then fs.put
upload_video_put(p) ==
  /\ procs[p].pc = "u_put"
  /\ LET video == procs[p].video
         session_id == procs[p].session_id
     IN IF upload_video_rejection(video) # ""
          THEN /\ last' = [op |-> "upload_video", status |-> 400,
                           detail |-> upload_video_rejection(video), session_id |-> session_id]
               /\ procs' = [procs EXCEPT ![p] = Idle]
               /\ UNCHANGED <<blobs, nextOid, clock>>
          ELSE /\ nextOid <= MaxOid
               /\ blobs' = (nextOid :> [content |-> video.content,
                                        filename |-> video.filename,
                                        content_type |-> video.content_type,
                                        session_id |-> session_id,
                                        uploaded_at |-> isoformat(clock)]) @@ blobs
               /\ nextOid' = nextOid + 1
               /\ clock' = utcnow_after(TRUE)
               /\ procs' = [procs EXCEPT ![p].pc = "u_update", ![p].video_id = Some(nextOid)]
               /\ UNCHANGED last
  /\ UNCHANGED <<client, db, fs, sessions>>

\* mutant: the update refreshes updated_at and forgets video_id
update_one_video_touch(session_id, video_id) ==
  IF session_id \in DOMAIN sessions
    THEN [sessions EXCEPT ![session_id].updated_at = isoformat(clock)]
    ELSE sessions

\* lines 107-115: update_one({"_id": id}, {"$set": ...}) changes the matching
\* document and changes nothing when none matches; its result is not read
update_one_video(session_id, video_id) ==
  IF session_id \in DOMAIN sessions
    THEN [sessions EXCEPT ![session_id].video_id = Some(video_id),
                          ![session_id].updated_at = isoformat(clock)]
    ELSE sessions

\* lines 106-121: update the reference and answer 200
upload_video_update(p) ==
  /\ procs[p].pc = "u_update"
  /\ sessions' = update_one_video(procs[p].session_id, procs[p].video_id[1])
  /\ last' = [op |-> "upload_video", status |-> 200, detail |-> "Video uploaded successfully",
              session_id |-> procs[p].session_id, video_id |-> procs[p].video_id[1]]
  /\ procs' = [procs EXCEPT ![p] = Idle]
  /\ clock' = utcnow_after(TRUE)
  /\ UNCHANGED <<client, db, fs, blobs, nextOid>>

(* ----------------------------- get_session ----------------------------- *)
\* lines 168-184
get_session_response(session_id) ==
  IF ~ObjectIdValid(session_id)
    THEN [op |-> "get_session", status |-> 400, detail |-> "Invalid session ID"]
  ELSE IF find_one(session_id) = None
    THEN [op |-> "get_session", status |-> 404, detail |-> "Session not found"]
  ELSE [op |-> "get_session", status |-> 200, body |-> Doc(session_id)]

get_session(session_id) ==
  /\ Serving
  /\ last' = get_session_response(session_id)
  /\ UNCHANGED <<client, db, fs, sessions, blobs, nextOid, clock, procs>>

(* ---------------------------- download_video --------------------------- *)
\* lines 197-206: the error raised before GridFS is read, or status 200
download_video_lookup(session_id) ==
  IF ~ObjectIdValid(session_id)
    THEN [op |-> "download_video", status |-> 500, detail |-> "Failed to download video"]
  ELSE IF find_one(session_id) = None
    THEN [op |-> "download_video", status |-> 404, detail |-> "Session not found"]
  ELSE IF sessions[session_id].video_id = None
    THEN [op |-> "download_video", status |-> 404, detail |-> "No video found for this session"]
  ELSE [op |-> "download_video", status |-> 200]

\* lines 208-222: fs.get raises NoFile for an absent id
download_video_stream(video_id) ==
  IF video_id \notin DOMAIN blobs
    THEN [op |-> "download_video", status |-> 404, detail |-> "Video file not found in storage"]
  ELSE [op |-> "download_video", status |-> 200,
        content |-> blobs[video_id].content,
        media_type |-> IF blobs[video_id].content_type = "" THEN "video/mp4"
                       ELSE blobs[video_id].content_type,
        filename |-> blobs[video_id].filename]

download_video_find(p, session_id) ==
  /\ Serving
  /\ FreeSlot(p)
  /\ IF download_video_lookup(session_id).status # 200
       THEN /\ last' = download_video_lookup(session_id)
            /\ UNCHANGED procs
       ELSE /\ procs' = [procs EXCEPT ![p] = [Idle EXCEPT !.pc = "dl_get",
                                                           !.session_id = session_id,
                                                           !.video_id = sessions[session_id].video_id]]
            /\ UNCHANGED last
  /\ UNCHANGED <<client, db, fs, sessions, blobs, nextOid, clock>>

download_video_get(p) ==
  /\ procs[p].pc = "dl_get"
  /\ last' = download_video_stream(procs[p].video_id[1])
  /\ procs' = [procs EXCEPT ![p] = Idle]
  /\ UNCHANGED <<client, db, fs, sessions, blobs, nextOid, clock>>

(* ---------------------------- delete_session --------------------------- *)
\* lines 304-312: request arrival and find_one
delete_session_find(p, session_id) ==
  /\ Serving
  /\ FreeSlot(p)
  /\ IF ~ObjectIdValid(session_id)
       THEN /\ last' = [op |-> "delete_session", status |-> 500,
                        detail |-> "Failed to delete session", session_id |-> session_id]
            /\ UNCHANGED procs
     ELSE IF find_one(session_id) = None
       THEN /\ last' = [op |-> "delete_session", status |-> 404,
                        detail |-> "Session not found", session_id |-> session_id]
            /\ UNCHANGED procs
     ELSE /\ procs' = [procs EXCEPT ![p] =
                         [Idle EXCEPT !.pc = IF sessions[session_id].video_id # None
                                               THEN "d_fs_delete" ELSE "d_delete_one",
                                      !.session_id = session_id,
                                      !.video_id = sessions[session_id].video_id]]
          /\ UNCHANGED last
  /\ UNCHANGED <<client, db, fs, sessions, blobs, nextOid, clock>>

\* mutant: a failing fs.delete is not swallowed and the request ends in a 500
delete_session_fs_delete_raise(p) ==
  /\ procs[p].pc = "d_fs_delete"
  /\ \/ /\ blobs' = Remove(blobs, procs[p].video_id[1])
        /\ procs' = [procs EXCEPT ![p].pc = "d_delete_one"]
        /\ UNCHANGED last
     \/ /\ UNCHANGED blobs
        /\ procs' = [procs EXCEPT ![p] = Idle]
        /\ last' = [op |-> "delete_session", status |-> 500,
                    detail |-> "Failed to delete session", session_id |-> procs[p].session_id]
  /\ UNCHANGED <<client, db, fs, sessions, nextOid, clock>>

\* lines 313-317: fs.delete removes the file (an absent id is no error); when
\* the call raises, the handler prints a warning and goes on
delete_session_fs_delete(p) ==
  /\ procs[p].pc = "d_fs_delete"
  /\ \/ /\ blobs' = Remove(blobs, procs[p].video_id[1])
        /\ procs' = [procs EXCEPT ![p].pc = "d_delete_one"]
     \/ /\ UNCHANGED blobs
        /\ procs' = [procs EXCEPT ![p].pc = "d_delete_one", ![p].warned = TRUE]
  /\ UNCHANGED <<client, db, fs, sessions, nextOid, clock, last>>

\* mutant: the 200 answer is given without delete_one
delete_session_delete_one_keep(p) ==
  /\ procs[p].pc = "d_delete_one"
  /\ last' = [op |-> "delete_session", status |-> 200,
              detail |-> "Session deleted successfully", session_id |-> procs[p].session_id]
  /\ procs' = [procs EXCEPT ![p] = Idle]
  /\ UNCHANGED <<client, db, fs, sessions, blobs, nextOid, clock>>

\* lines 319-325: delete_one and the 200 answer
delete_session_delete_one(p) ==
  /\ procs[p].pc = "d_delete_one"
  /\ sessions' = Remove(sessions, procs[p].session_id)
  /\ last' = [op |-> "delete_session", status |-> 200,
              detail |-> "Session deleted successfully", session_id |-> procs[p].session_id]
  /\ procs' = [procs EXCEPT ![p] = Idle]
  /\ UNCHANGED <<client, db, fs, blobs, nextOid, clock>>

(* ------------------------ get_sessions_by_device ----------------------- *)
OrElse(opt, default) == IF opt = None THEN default ELSE opt[1]

\* find(query): the ids of the matching documents
find(device_id) ==
  IF device_id = None THEN DOMAIN sessions
  ELSE {oid \in DOMAIN sessions : sessions[oid].device_id = device_id[1]}

\* .sort("timestamp", -1): every order of the matching documents with
\* non-increasing timestamp (the store leaves the order of ties open); the
\* next document is always one of those with the greatest timestamp left
RECURSIVE sort_timestamp_desc(_)
sort_timestamp_desc(oids) ==
  IF oids = {} THEN {<<>>}
  ELSE UNION { {<<x>> \o o : o \in sort_timestamp_desc(oids \ {x})} :
               x \in {y \in oids : \A z \in oids : sessions[y].timestamp >= sessions[z].timestamp} }

Min(a, b) == IF a <= b THEN a ELSE b

\* mutant: skip is ignored
skip_limit_no_skip(o, skip, limit) == SubSeq(o, 1, Min(Len(o), limit))

\* .skip(skip).limit(limit)
skip_limit(o, skip, limit) == SubSeq(o, skip + 1, Min(Len(o), skip + limit))

\* Query(100, ge=1, le=1000) and Query(0, ge=0): out of range is a 422
ListQueryValid(limit, skip) ==
  /\ OrElse(limit, LIMIT_DEFAULT) >= LIMIT_GE
  /\ OrElse(limit, LIMIT_DEFAULT) <= LIMIT_LE
  /\ OrElse(skip, SKIP_DEFAULT) >= SKIP_GE

Docs(o) == [i \in DOMAIN o |-> Doc(o[i])]

get_sessions_by_device(device_id, limit, skip) ==
  /\ Serving
  /\ IF ~ListQueryValid(limit, skip)
       THEN last' = [op |-> "get_sessions_by_device", status |-> 422]
       ELSE \E o \in sort_timestamp_desc(find(Some(device_id))) :
              last' = [op |-> "get_sessions_by_device", status |-> 200,
                       body |-> Docs(skip_limit(o, OrElse(skip, SKIP_DEFAULT),
                                                OrElse(limit, LIMIT_DEFAULT)))]
  /\ UNCHANGED <<client, db, fs, sessions, blobs, nextOid, clock, procs>>

(* ------------------------- export_sessions_csv ------------------------- *)
\* lines 244-246: `if device_id:` is false for None and for the empty string
export_query(device_id) ==
  IF device_id # None /\ device_id[1] # "" THEN device_id ELSE None

\* csv.writer writes None as the empty field
CsvCell(opt) == IF opt = None THEN "" ELSE opt[1]

CsvHeader ==
  <<"session_id", "device_id", "emotion_score", "latitude", "longitude",
    "timestamp", "has_video", "created_at">>

\* lines 269-278
CsvRow(oid) ==
  <<oid, sessions[oid].device_id, sessions[oid].emotion_score,
    CsvCell(sessions[oid].latitude), CsvCell(sessions[oid].longitude),
    sessions[oid].timestamp,
    IF sessions[oid].video_id # None THEN "yes" ELSE "no",
    sessions[oid].created_at>>

export_sessions_csv(device_id) ==
  /\ Serving
  /\ \E o \in sort_timestamp_desc(find(export_query(device_id))) :
       last' = [op |-> "export_sessions_csv", status |-> 200, media_type |-> "text/csv",
                body |-> <<CsvHeader>> \o [i \in DOMAIN o |-> CsvRow(o[i])]]
  /\ UNCHANGED <<client, db, fs, sessions, blobs, nextOid, clock, procs>>

(* ----------------------------- health_check ---------------------------- *)
Connected == <<"c", "o", "n", "n", "e", "c", "t", "e", "d">>
Disconnected == <<"d", "i", "s">> \o Connected \o <<":", " ">>

\* str(e) of what db.client.admin.command("ping") can raise
PingErrors ==
  { <<"t", "i", "m", "e", "d", " ", "o", "u", "t">>,
    <<"r", "e", "f", "u", "s", "e", "d">> }
NoneTypeError == <<"N", "o", "n", "e", "T", "y", "p", "e">>

\* Python's `needle in hay` on strings
Contains(needle, hay) ==
  \E i \in 0..(Len(hay) - Len(needle)) : SubSeq(hay, i + 1, i + Len(needle)) = needle

\* lines 14-19
mongodb_status_of(raised) ==
  IF raised = None THEN Connected ELSE Disconnected \o raised[1]

\* line 22
health_status(mongodb_status) ==
  IF Contains(Connected, mongodb_status) THEN "healthy" ELSE "unhealthy"

\* what the ping raises: AttributeError on a None client, else nothing or a
\* driver error
ping_outcomes ==
  IF client = "None" THEN {Some(NoneTypeError)}
  ELSE {None} \cup {Some(e) : e \in PingErrors}

health_check ==
  /\ \E raised \in ping_outcomes :
       last' = [op |-> "health_check", status |-> 200,
                body |-> [status |-> health_status(mongodb_status_of(raised)),
                          timestamp |-> isoformat(clock),
                          mongodb |-> mongodb_status_of(raised),
                          gridfs |-> IF fs # "None" THEN "operational" ELSE "unavailable"]]
  /\ UNCHANGED <<client, db, fs, sessions, blobs, nextOid, clock, procs>>

(* --------------------------- data retention --------------------------- *)
\* _create_indexes, called by connect once db is set: the index on created_at
\* with expireAfterSeconds
ttl_index ==
  IF db = "Database"
    THEN Some([key |-> "created_at", expireAfterSeconds |-> DATA_RETENTION_DAYS * DAY])
    ELSE None

\* what a pass of the store's TTL monitor finds expired under such an index:
\* the documents whose indexed field is a BSON date more than
\* expireAfterSeconds old; a field of any other type never expires
ttl_expired(expireAfterSeconds) ==
  {oid \in DOMAIN sessions :
     /\ sessions[oid].created_at.bson = "date"
     /\ sessions[oid].created_at.at + expireAfterSeconds < clock}

\* one pass of the store's TTL monitor (a background thread of the store, run
\* every minute): it deletes the expired documents, and no blob
ttl_monitor ==
  /\ ttl_index # None
  /\ sessions' = [oid \in (DOMAIN sessions) \ ttl_expired(ttl_index[1].expireAfterSeconds)
                     |-> sessions[oid]]
  /\ UNCHANGED <<client, db, fs, blobs, nextOid, clock, procs, last>>

\* time passes between requests
Tick ==
  /\ clock < MaxClock
  /\ clock' = clock + 1
  /\ UNCHANGED <<client, db, fs, sessions, blobs, nextOid, procs, last>>

(* --------------------------- specifications ---------------------------- *)
LimitInputs == {None, Some(0), Some(1), Some(2), Some(1000), Some(1001)}
SkipInputs == {None, Some(-1), Some(1), Some(2)}
DeviceInputs == {"d1", ""}

\* the requests offered while handlers interleave: one body and one upload
\* that pass validation and one for each way of failing it, addressed to the
\* first two identifiers allocated or to a malformed one
ConcBodies == {b \in Bodies : b.device_id = "d1" /\ b.timestamp = 1} \cup
              {b \in Bodies : b.emotion_score > SCORE_LE}
ConcSessionIds == {1, 2, Malformed}
ConcUploads == {v \in Uploads : v.content_type # "video/quicktime"}

\* the handlers that write, interleaved store call by store call
Next ==
  \/ connect
  \/ \E body \in ConcBodies : create_session(body)
  \/ \E p \in Procs, s \in ConcSessionIds, v \in ConcUploads : upload_video_find(p, s, v)
  \/ \E p \in Procs : upload_video_put(p)
  \/ \E p \in Procs : upload_video_update(p)
  \/ \E p \in Procs, s \in ConcSessionIds : delete_session_find(p, s)
  \/ \E p \in Procs : delete_session_fs_delete(p)
  \/ \E p \in Procs : delete_session_delete_one(p)

Spec == Init /\ [][Next]_vars

\* every handler, one request at a time
NextSeq ==
  \/ connect
  \/ AllIdle /\ \E body \in Bodies : create_session(body)
  \/ AllIdle /\ \E p \in Procs, s \in SessionIdInputs, v \in Uploads : upload_video_find(p, s, v)
  \/ \E p \in Procs : upload_video_put(p)
  \/ \E p \in Procs : upload_video_update(p)
  \/ AllIdle /\ \E s \in SessionIdInputs : get_session(s)
  \/ AllIdle /\ \E p \in Procs, s \in SessionIdInputs : download_video_find(p, s)
  \/ \E p \in Procs : download_video_get(p)
  \/ AllIdle /\ \E p \in Procs, s \in SessionIdInputs : delete_session_find(p, s)
  \/ \E p \in Procs : delete_session_fs_delete(p)
  \/ \E p \in Procs : delete_session_delete_one(p)
  \/ AllIdle /\ \E d \in DeviceInputs, l \in LimitInputs, k \in SkipInputs :
                  get_sessions_by_device(d, l, k)
  \/ AllIdle /\ \E d \in {None} \cup {Some(x) : x \in DeviceInputs} : export_sessions_csv(d)
  \/ AllIdle /\ health_check

SpecSeq == Init /\ [][NextSeq]_vars

\* sessions are created, deleted and listed, one request at a time
NextList ==
  \/ connect
  \/ AllIdle /\ \E body \in Bodies : create_session(body)
  \/ AllIdle /\ \E p \in Procs, s \in SessionIdInputs : delete_session_find(p, s)
  \/ \E p \in Procs : delete_session_delete_one(p)
  \/ AllIdle /\ \E d \in DeviceInputs, l \in LimitInputs, k \in SkipInputs :
                  get_sessions_by_device(d, l, k)

SpecList == Init /\ [][NextList]_vars

\* sessions are created and read while time passes and the store's TTL
\* monitor runs; time does pass, and the monitor is never held back for good
NextTTL ==
  \/ connect
  \/ \E body \in Bodies : create_session(body)
  \/ \E s \in SessionIdInputs : get_session(s)
  \/ Tick
  \/ ttl_monitor

SpecTTL == Init /\ [][NextTTL]_vars /\ WF_vars(Tick) /\ WF_vars(ttl_monitor)

(* ------------------------------- claims -------------------------------- *)
\* Some request slot moves from one place of its handler to another
Moves(p, from, to) == procs[p].pc = from /\ procs'[p].pc = to

\* C1 as stated: in every reachable state every session whose video_id is
\* non-null references a blob that is present in the blob store.
C1_EveryReferenceLive ==
  \A s \in DOMAIN sessions :
    sessions[s].video_id # None => sessions[s].video_id[1] \in DOMAIN blobs

\* C1 amended: a session whose video_id is non-null references a present
\* blob, unless a delete_session on that session has deleted that blob and
\* has not removed the record.
C1_ReferenceLiveUnlessDeleting ==
  \A s \in DOMAIN sessions :
    (sessions[s].video_id # None /\ sessions[s].video_id[1] \notin DOMAIN blobs)
      => \E p \in Procs : /\ procs[p].pc = "d_delete_one"
                          /\ procs[p].session_id = s
                          /\ procs[p].video_id = sessions[s].video_id
                          /\ ~procs[p].warned

C1_Witness ==
  \E s \in DOMAIN sessions, p, q \in Procs :
    /\ sessions[s].video_id # None
    /\ sessions[s].video_id[1] \in DOMAIN blobs
    /\ p # q
    /\ procs[p].pc = "u_update" /\ procs[p].session_id = s
    /\ procs[q].pc = "d_delete_one" /\ procs[q].session_id = s

\* C2: a delete_session that found its session answers 200 and leaves no
\* record (get_session answers 404); the blob it read is gone from the blob
\* store unless the blob delete failed, and a failed blob delete neither
\* stops the handler nor touches the record before delete_one.
C2_DeleteRemovesRecordAndBlob ==
  [][\A p \in Procs :
       /\ (procs[p].pc = "d_fs_delete" /\ procs'[p] # procs[p])
            => \A v \in Oids :
                 procs[p].video_id = Some(v)
                   => /\ procs'[p].pc = "d_delete_one"
                      /\ sessions' = sessions
                      /\ procs'[p].warned \/ v \notin DOMAIN blobs'
       /\ Moves(p, "d_delete_one", "idle")
            => \A s \in Oids :
                 procs[p].session_id = s
                   => /\ last'.op = "delete_session" /\ last'.status = 200
                      /\ last'.session_id = s
                      /\ (get_session_response(s).status = 404)'
                      /\ \A v \in Oids :
                           (procs[p].video_id = Some(v) /\ ~procs[p].warned)
                             => (download_video_stream(v).status = 404)'
    ]_vars

C2_Witness ==
  /\ last.op = "delete_session" /\ last.status = 200
  /\ last.session_id \notin DOMAIN sessions
  /\ \E b \in DOMAIN blobs : blobs[b].session_id = last.session_id
  /\ AllIdle

\* C3: an upload_video on an existing session whose content type is outside
\* the allow-list, or whose payload is longer than the maximum, answers 400
\* and changes neither the blob store nor any session record.
C3_Invalid(video) ==
  \/ video.content_type \notin {"video/mp4", "video/quicktime", "video/x-msvideo"}
  \/ Len(video.content) > MAX_VIDEO_SIZE

C3_RejectedUploadChangesNothing ==
  [][\A p \in Procs :
       (procs[p].pc = "u_put" /\ C3_Invalid(procs[p].video) /\ procs'[p] # procs[p])
         => /\ last'.op = "upload_video" /\ last'.status = 400
            /\ procs'[p].pc = "idle"
            /\ blobs' = blobs
            /\ sessions' = sessions
    ]_vars

C3_Witness ==
  /\ last.op = "upload_video" /\ last.status = 400 /\ last.detail = "File too large"
  /\ last.session_id \in DOMAIN sessions
  /\ sessions[last.session_id].video_id # None

\* download_video with nothing running between its two store calls
DownloadVideo(session_id) ==
  IF download_video_lookup(session_id).status # 200
    THEN download_video_lookup(session_id)
    ELSE download_video_stream(sessions[session_id].video_id[1])

\* C4: when upload_video answers 200 with video_id v and nothing else ran on
\* the session, get_session returns the record with video_id v and
\* download_video returns the uploaded bytes, content type and filename.
C4_UploadThenReadBack ==
  [][\A p \in Procs :
       Moves(p, "u_update", "idle")
         => \A s \in Oids, v \in Oids, u \in Uploads :
              (procs[p].session_id = s /\ procs[p].video_id = Some(v) /\ procs[p].video = u)
                => /\ last'.op = "upload_video" /\ last'.status = 200
                   /\ last'.session_id = s /\ last'.video_id = v
                   /\ (get_session_response(s).status = 200)'
                   /\ (get_session_response(s).body.video_id = Some(v))'
                   /\ (DownloadVideo(s).status = 200)'
                   /\ (DownloadVideo(s).content = u.content)'
                   /\ (DownloadVideo(s).media_type = u.content_type)'
                   /\ (DownloadVideo(s).filename = u.filename)'
    ]_vars

C4_Witness ==
  /\ last.op = "upload_video" /\ last.status = 200
  /\ last.session_id \in DOMAIN sessions
  /\ sessions[last.session_id].video_id = Some(last.video_id)
  /\ DownloadVideo(last.session_id).status = 200
  /\ Len(DownloadVideo(last.session_id).content) = MAX_VIDEO_SIZE

\* C5 as stated: the answer of upload_video's session lookup is 404 for a
\* well-formed id that matches no record and 400 only for a malformed id.
C5_MissingSessionIs404 ==
  (last.op = "upload_video" /\ last.detail = "Invalid session ID")
    => IF ObjectIdValid(last.session_id) THEN last.status = 404 ELSE last.status = 400
\* C6: create_session with an emotion_score outside [1,5] answers a client
\* error and leaves the session records unchanged; with a score in [1,5] it
\* inserts one record and returns it with video_id null.
C6_CreateValidatesScore ==
  [][\A body \in Bodies :
       (last'.op = "create_session" /\ create_session(body))
         => IF body.emotion_score < 1 \/ body.emotion_score > 5
              THEN /\ last'.op = "create_session"
                   /\ last'.status >= 400 /\ last'.status < 500
                   /\ sessions' = sessions
              ELSE /\ last'.op = "create_session" /\ last'.status = 201
                   /\ last'.body.video_id = None
                   /\ last'.body.id \notin DOMAIN sessions
                   /\ DOMAIN sessions' = DOMAIN sessions \cup {last'.body.id}
                   /\ \A t \in DOMAIN sessions : sessions'[t] = sessions[t]
                   /\ ([id |-> last'.body.id] @@ sessions'[last'.body.id]) = last'.body
                   /\ last'.body.emotion_score = body.emotion_score
                   /\ last'.body.device_id = body.device_id
    ]_vars

C6_Witness ==
  /\ last.op = "create_session" /\ last.status = 201
  /\ last.body.emotion_score = 5
  /\ last.body.id \in DOMAIN sessions
  /\ Cardinality(DOMAIN sessions) > 1

\* what the claims expect of a listing: the orders of a device's sessions
\* with non-increasing timestamp, and a slice of one
RECURSIVE C7_Orders(_)
C7_Orders(oids) ==
  IF oids = {} THEN {<<>>}
  ELSE UNION { {Append(o, x) : o \in C7_Orders(oids \ {x})} : x \in oids }

C7_Descending(oids) ==
  {o \in C7_Orders(oids) :
     \A i, j \in DOMAIN o : i < j => sessions[o[i]].timestamp >= sessions[o[j]].timestamp}

C7_OfDevice(d) == {t \in DOMAIN sessions : sessions[t].device_id = d}

\* body is the slice [skip, skip+n) of a timestamp-descending list of the
\* sessions oids: it holds stored documents of oids, each once, in
\* non-increasing timestamp order, as many as the list has from position
\* skip on (n at most); skip of the other sessions, none older than the
\* first of body, come before it and the rest, none newer than its last,
\* come after it
C7_IsSlice(body, oids, skip, n) ==
  LET ids == {body[i].id : i \in DOMAIN body}
      rest == oids \ ids
      left == IF Cardinality(oids) - skip < 0 THEN 0 ELSE Cardinality(oids) - skip
  IN /\ Len(body) = (IF left < n THEN left ELSE n)
     /\ ids \subseteq oids
     /\ Cardinality(ids) = Len(body)
     /\ \A i \in DOMAIN body : body[i] = [id |-> body[i].id] @@ sessions[body[i].id]
     /\ \A i, j \in DOMAIN body : i < j => body[i].timestamp >= body[j].timestamp
     /\ Len(body) > 0 =>
          \E pre \in SUBSET rest :
            /\ Cardinality(pre) = skip
            /\ \A t \in pre : sessions[t].timestamp >= body[1].timestamp
            /\ \A t \in rest \ pre : sessions[t].timestamp <= body[Len(body)].timestamp

C7_Clamp(limit) == IF limit < 1 THEN 1 ELSE IF limit > 1000 THEN 1000 ELSE limit

C7_Limit(l) == IF l = None THEN 100 ELSE l[1]
C7_Skip(k) == IF k = None THEN 0 ELSE k[1]

\* C7 as stated: for every device_id, limit and skip >= 0 the listing is the
\* slice [skip, skip+L) of the device's sessions in timestamp-descending
\* order, L being limit clamped to [1,1000].
C7_ListClampsLimit ==
  [][\A d \in DeviceInputs, l \in LimitInputs, k \in SkipInputs :
       (/\ last'.op = "get_sessions_by_device"
        /\ C7_Skip(k) >= 0
        /\ get_sessions_by_device(d, l, k))
         => /\ last'.status = 200
            /\ C7_IsSlice(last'.body, C7_OfDevice(d), C7_Skip(k), C7_Clamp(C7_Limit(l)))
    ]_vars

\* C7 amended: a limit outside [1,1000] or a skip below 0 is answered 422;
\* otherwise the listing holds only the device's sessions, in non-increasing
\* timestamp order, and is the slice [skip, skip+limit) of the device's
\* sessions in timestamp-descending order (limit 100 and skip 0 by default).
C7_ListRejectsOrSlices ==
  [][\A d \in DeviceInputs, l \in LimitInputs, k \in SkipInputs :
       (last'.op = "get_sessions_by_device" /\ get_sessions_by_device(d, l, k))
         => IF C7_Limit(l) < 1 \/ C7_Limit(l) > 1000 \/ C7_Skip(k) < 0
              THEN last'.op = "get_sessions_by_device" /\ last'.status = 422
              ELSE /\ last'.op = "get_sessions_by_device" /\ last'.status = 200
                   /\ \A i \in DOMAIN last'.body : last'.body[i].device_id = d
                   /\ \A i, j \in DOMAIN last'.body :
                        i < j => last'.body[i].timestamp >= last'.body[j].timestamp
                   /\ C7_IsSlice(last'.body, C7_OfDevice(d), C7_Skip(k), C7_Limit(l))
    ]_vars

C7_Witness ==
  /\ last.op = "get_sessions_by_device" /\ last.status = 200
  /\ Len(last.body) = 1
  /\ Cardinality(C7_OfDevice("d1")) = 3
  /\ \E t \in C7_OfDevice("d1") : sessions[t].timestamp > last.body[1].timestamp
  /\ \E t \in C7_OfDevice("d1") :
       t # last.body[1].id /\ sessions[t].timestamp = last.body[1].timestamp

\* C8 as stated: health_check answers 200, and its status field is "healthy"
\* exactly when the ping succeeded (the mongodb field says "connected").
C8_StatusReflectsPing ==
  last.op = "health_check"
    => /\ last.status = 200
       /\ last.body.status = "healthy" <=> last.body.mongodb = Connected
       /\ last.body.status \in {"healthy", "unhealthy"}

\* C9 as stated: for every device_id filter, the empty string included, the
\* export has one data row per session of that device (per session when no
\* filter is given), in timestamp-descending order, with has_video "yes"
\* exactly for the sessions whose video_id is non-null.
C9_Matching(d) == IF d = None THEN DOMAIN sessions ELSE C7_OfDevice(d[1])

C9_ExportRowsMatchFilter ==
  [][\A d \in {None} \cup {Some(x) : x \in DeviceInputs} :
       (last'.op = "export_sessions_csv" /\ export_sessions_csv(d))
         => /\ last'.status = 200
            /\ Len(last'.body) = 1 + Cardinality(C9_Matching(d))
            /\ \E o \in C7_Descending(C9_Matching(d)) :
                 \A i \in DOMAIN o :
                   /\ last'.body[i + 1][1] = o[i]
                   /\ last'.body[i + 1][7] = "yes" <=> sessions[o[i]].video_id # None
    ]_vars

\* C10 as stated: when upload_video succeeds on a session that already has a
\* video, the blob attached before is deleted or still referenced by a
\* session record: the re-upload leaves no orphan.
C10_ReuploadLeavesNoOrphan ==
  [][\A p \in Procs :
       Moves(p, "u_update", "idle")
         => \A s \in Oids, old \in Oids :
              (/\ procs[p].session_id = s
               /\ s \in DOMAIN sessions
               /\ sessions[s].video_id = Some(old))
                => \/ old \notin DOMAIN blobs'
                   \/ \E t \in DOMAIN sessions' : sessions'[t].video_id = Some(old)
    ]_vars

\* a session record older than the retention window
C11_Older(s) ==
  s \in DOMAIN sessions /\ clock - sessions[s].created_at.at > DATA_RETENTION_DAYS * DAY

\* C11 as stated: every session record whose created_at is older than the
\* retention window is eventually removed by the store's expiration, with no
\* delete_session called.
C11_ExpiredEventuallyRemoved ==
  \A s \in Oids : C11_Older(s) ~> (s \notin DOMAIN sessions)

\* C12 as stated: when the session's record no longer exists at the time of
\* upload_video's update (a delete_session removed it after the existence
\* check), the update fails and upload_video does not answer 200 with a
\* video_id.
C12_NoSuccessOnVanishedSession ==
  [][\A p \in Procs :
       (Moves(p, "u_update", "idle") /\ procs[p].session_id \notin DOMAIN sessions)
         => ~(last'.op = "upload_video" /\ last'.status = 200)
    ]_vars
====
